---------------------------- MODULE Spec2Model ----------------------------
(***************************************************************************)
(* Model of the annotation merge engine and of the annotate run of dram2   *)
(* (src/dram2/annotate/__init__.py).                                       *)
(*                                                                         *)
(* A table (pandas DataFrame) is a record                                  *)
(*     [cols |-> set of column names,                                      *)
(*      rows |-> sequence of [id |-> index label, val |-> [cols -> cell]]] *)
(* The index may hold the same label more than once, as in pandas.         *)
(* A missing cell is NaN.  The row order of an outer join follows the      *)
(* documented pandas rule (keys sorted lexicographically).                 *)
(***************************************************************************)
EXTENDS Integers, Sequences, FiniteSets, TLC

VARIABLES
    m_new,      \* merge_past_annotations: argument new_annotations
    m_past,     \* merge_past_annotations: argument past_annotations
    m_force,    \* merge_past_annotations: argument force
    m_out,      \* merge_past_annotations: what the call did
    m_pc,       \* "start" before the call, "done" after it
    tsv,        \* <output_dir>/annotations.tsv on disk
    project_meta,   \* the project metadata on disk
    pc,         \* "idle", "searching" (annotate_pipe before annotate()),
                \* "done" or "failed" (the command has ended)
    op,         \* the command that runs or has just ended
    ops,        \* number of commands started so far
    request,    \* annotate_pipe: use_db and use_dbset as passed
    force,      \* annotate_pipe / call_genes_pipe: force
    fastas,     \* annotate_pipe: names of fastas (gene files, then called)
    databases,  \* annotate_pipe: names of the kits in databases
    exception,  \* what the command raised, "none" if nothing
    stage,      \* the step that raised
    searches,   \* number of kit.search calls of this run
    indexes,    \* number of make_mmseqs_db_for_fasta calls of this run
    tsv0,       \* annotations.tsv as it was when the command started
    meta0,      \* the project metadata as it was when the command started
    call,       \* a function of the kits: its name and its arguments
    ret,        \* what the call returned or raised
    call_pc     \* "start" (not yet called) or "done"

merge_vars == <<m_new, m_past, m_force, m_out, m_pc>>

disk_vars == <<tsv, project_meta>>

run_vars == <<pc, op, ops, request, force, fastas, databases,
              exception, stage, searches, indexes, tsv0, meta0>>

call_vars == <<call, ret, call_pc>>

vars == <<merge_vars, disk_vars, run_vars, call_vars>>

---------------------------------------------------------------------------
(* Bounds of the model *)

\* largest number of rows of one table that carry the same gene id
MaxDup == 2

\* largest number of paths passed to one command
MaxPaths == 2

\* number of commands run in one project directory
MaxOps == 3

\* rows of a hits file
MaxHits == 2

\* threads given to a kit
MaxThreads == 3

---------------------------------------------------------------------------
(* Constants of the program *)

FASTA_COL == "fasta"
GENE_ID_COL == "gene_ids"

\* a missing value of a DataFrame cell
NaN == "<NaN>"

\* every index label of the model, in lexicographic order
IdOrder ==
    <<"1", "1_1", "2", "A", "A_1", "A_1_1", "A_1_1_1", "A_1_2", "A_2", "B", "B_1",
      "B_1_1", "B_2">>

---------------------------------------------------------------------------
(* DataFrame primitives used by the merge *)

RECURSIVE Flatten(_)
Flatten(ss) ==
    IF Len(ss) = 0 THEN <<>> ELSE Head(ss) \o Flatten(Tail(ss))

EmptyFrame == [cols |-> {}, rows |-> <<>>]

\* set(df.index)
IndexSet(t) == {t.rows[i].id : i \in 1..Len(t.rows)}

\* len(df)
FrameLen(t) == Len(t.rows)

RowsOf(t, g) == SelectSeq(t.rows, LAMBDA r : r.id = g)

\* df.loc[list(ids)]
Loc(t, ids) ==
    [cols |-> t.cols, rows |-> SelectSeq(t.rows, LAMBDA r : r.id \in ids)]

\* df.drop(list(cs), axis=1)
DropColumns(t, cs) ==
    [cols |-> t.cols \ cs,
     rows |-> [i \in 1..Len(t.rows) |->
                 [id |-> t.rows[i].id,
                  val |-> [c \in t.cols \ cs |-> t.rows[i].val[c]]]]]

\* df.drop(list(ids))
DropRows(t, ids) ==
    [cols |-> t.cols, rows |-> SelectSeq(t.rows, LAMBDA r : r.id \notin ids)]

\* column names of pd.merge: a name on both sides gets the suffixes _x and _y
MergedColumns(l, r) ==
    (l.cols \ r.cols) \cup (r.cols \ l.cols)
        \cup {c \o "_x" : c \in l.cols \cap r.cols}
        \cup {c \o "_y" : c \in l.cols \cap r.cols}

\* one row of the join: lrow and rrow are rows or the empty sequence <<>>
JoinedRow(l, r, g, lrow, rrow) ==
    [id |-> g,
     val |-> [c \in MergedColumns(l, r) |->
        IF c \in l.cols \ r.cols
            THEN (IF lrow = <<>> THEN NaN ELSE lrow[1].val[c])
        ELSE IF c \in r.cols \ l.cols
            THEN (IF rrow = <<>> THEN NaN ELSE rrow[1].val[c])
        ELSE IF \E b \in l.cols \cap r.cols : c = b \o "_x"
            THEN (IF lrow = <<>> THEN NaN
                  ELSE lrow[1].val[CHOOSE b \in l.cols \cap r.cols : c = b \o "_x"])
        ELSE (IF rrow = <<>> THEN NaN
              ELSE rrow[1].val[CHOOSE b \in l.cols \cap r.cols : c = b \o "_y"])]]

\* the rows of the join that carry the key g
JoinedKey(l, r, g) ==
    LET L == RowsOf(l, g)
        R == RowsOf(r, g)
    IN  IF Len(L) = 0 /\ Len(R) = 0 THEN <<>>
        ELSE IF Len(R) = 0
            THEN [i \in 1..Len(L) |-> JoinedRow(l, r, g, <<L[i]>>, <<>>)]
        ELSE IF Len(L) = 0
            THEN [i \in 1..Len(R) |-> JoinedRow(l, r, g, <<>>, <<R[i]>>)]
        ELSE [n \in 1..(Len(L) * Len(R)) |->
                JoinedRow(l, r, g, <<L[((n - 1) \div Len(R)) + 1]>>,
                                   <<R[((n - 1) % Len(R)) + 1]>>)]

\* pd.merge(l, r, how="outer", left_index=True, right_index=True)
MergeOuter(l, r) ==
    [cols |-> MergedColumns(l, r),
     rows |-> Flatten([k \in 1..Len(IdOrder) |-> JoinedKey(l, r, IdOrder[k])])]

\* a row of t widened to the columns cs, NaN where t has no such column
Widen(t, row, cs) ==
    [id |-> row.id,
     val |-> [c \in cs |-> IF c \in t.cols THEN row.val[c] ELSE NaN]]

\* pd.concat([a, b])
Concat(a, b) ==
    LET cs == a.cols \cup b.cols
    IN  [cols |-> cs,
         rows |-> [i \in 1..Len(a.rows) |-> Widen(a, a.rows[i], cs)]
                    \o [i \in 1..Len(b.rows) |-> Widen(b, b.rows[i], cs)]]

---------------------------------------------------------------------------
(* merge_past_annotations *)

known_colliders == {FASTA_COL, GENE_ID_COL}

colliding_columns(new, past) == past.cols \cap new.cols

colliding_genes_none(new, past) == {}

colliding_genes(new, past) == IndexSet(new) \cap IndexSet(past)

problem_colliders_shared_rows(new, past) ==
    IF colliding_genes(new, past) = {} THEN {}
    ELSE colliding_columns(new, past) \ known_colliders

problem_colliders(new, past) == colliding_columns(new, past) \ known_colliders

past_annotations_merge_keep(new, past) ==
    Loc(past, colliding_genes(new, past))

past_annotations_merge_bare(new, past) ==
    DropColumns(Loc(past, colliding_genes(new, past)), past.cols)

past_annotations_merge(new, past) ==
    DropColumns(Loc(past, colliding_genes(new, past)),
                colliding_columns(new, past))

past_annotations_appened_trim(new, past) ==
    DropColumns(DropRows(past, colliding_genes(new, past)),
                colliding_columns(new, past))

past_annotations_appened(new, past) ==
    DropRows(past, colliding_genes(new, past))

Max(a, b) == IF a >= b THEN a ELSE b

\* the row count of the join compared with the trimmed past rows alone
RowCountMismatch_past_only(new, past) ==
    FrameLen(MergeOuter(new, past_annotations_merge(new, past)))
        # FrameLen(past_annotations_merge(new, past))

\* the logger.critical branch of the row count check
RowCountMismatch(new, past) ==
    FrameLen(MergeOuter(new, past_annotations_merge(new, past)))
        # Max(FrameLen(past_annotations_merge(new, past)), FrameLen(new))

\* merge_past_annotations that raises on a row count that does not match
merge_past_annotations_fatal(new, past, f) ==
    IF problem_colliders(new, past) # {} /\ ~f
    THEN [exception |-> "DramUsageError",
          named |-> problem_colliders(new, past),
          returned |-> FALSE,
          critical |-> FALSE,
          table |-> EmptyFrame]
    ELSE IF RowCountMismatch(new, past)
    THEN [exception |-> "ValueError",
          named |-> problem_colliders(new, past),
          returned |-> FALSE,
          critical |-> TRUE,
          table |-> EmptyFrame]
    ELSE [exception |-> "none",
          named |-> problem_colliders(new, past),
          returned |-> TRUE,
          critical |-> FALSE,
          table |-> Concat(MergeOuter(new, past_annotations_merge(new, past)),
                           past_annotations_appened(new, past))]

\* exception: what the call raised ("none": it returned); named: the columns
\* the error or the warning names; critical: logger.critical was called
merge_past_annotations(new, past, f) ==
    IF problem_colliders(new, past) # {} /\ ~f
    THEN [exception |-> "DramUsageError",
          named |-> problem_colliders(new, past),
          returned |-> FALSE,
          critical |-> FALSE,
          table |-> EmptyFrame]
    ELSE [exception |-> "none",
          named |-> problem_colliders(new, past),
          returned |-> TRUE,
          critical |-> RowCountMismatch(new, past),
          table |-> Concat(MergeOuter(new, past_annotations_merge(new, past)),
                           past_annotations_appened(new, past))]

---------------------------------------------------------------------------
(* The project directory: annotations.tsv and the project metadata *)

\* an optional value: <<>> is None, <<x>> is x
None == <<>>
Some(x) == <<x>>

\* annotations.tsv does not exist
NoFile == [exists |-> FALSE, table |-> EmptyFrame]

\* DataFrame.to_csv(sep="\t"): a missing value is written as an empty field
to_csv(t) ==
    [cols |-> t.cols,
     rows |-> [i \in 1..Len(t.rows) |->
        [id |-> t.rows[i].id,
         val |-> [c \in t.cols |->
            IF t.rows[i].val[c] = NaN THEN "" ELSE t.rows[i].val[c]]]]]

\* pd.read_csv(sep="\t", index_col=0): an empty field is read as missing
read_csv(f) ==
    [cols |-> f.cols,
     rows |-> [i \in 1..Len(f.rows) |->
        [id |-> f.rows[i].id,
         val |-> [c \in f.cols |->
            IF f.rows[i].val[c] = "" THEN NaN ELSE f.rows[i].val[c]]]]]

\* The project metadata: fastas is the list under FASTAS_CONF_TAG (batch
\* names, in order), genes_called the record of the last call_genes run,
\* annotations the record of the latest annotate run.  Each may be absent.
\* Of a run record only the fields a later command reads are kept.
EmptyMeta == [fastas |-> None, genes_called |-> None, annotations |-> None]

---------------------------------------------------------------------------
(* Inputs of the commands *)

BatchNames == {"A", "B"}

\* the gene files that can be passed: two of them have the stem "A"
GenePaths == {[dir |-> "in", stem |-> "A"],
              [dir |-> "alt", stem |-> "A"],
              [dir |-> "in", stem |-> "B"]}

\* the selectable kits, in the order of DB_KITS; each is modelled with its
\* <name>_id column and one gene per batch
DB_KITS == <<"fegenie", "methyl">>

KitNames == {DB_KITS[i] : i \in 1..Len(DB_KITS)}

ADJECTIVES_SET == {"stats", "kofam", "dbcan", "pfam", "heme", "merops",
                   "sulfur", "camper", "methyl", "fegenie"}

DBSETS == [adjectives |-> ADJECTIVES_SET]

SeqsUpTo(S, n) == UNION {[1..k -> S] : k \in 0..n}

Range(f) == {f[i] : i \in DOMAIN f}

---------------------------------------------------------------------------
(* get_all_fastas *)

\* Counter(names)[n]
Count(names, n) == Cardinality({i \in 1..Len(names) : names[i] = n})

has_dup_fasta_name_twice(names) ==
    Cardinality({n \in Range(names) : Count(names, n) > 2})

has_dup_fasta_name(names) ==
    Cardinality({n \in Range(names) : Count(names, n) > 1})

\* Fasta(fasta_loc.stem, ...)
path_to_gene_fastas(fasta_loc) == fasta_loc.stem

\* called_fastas: the list of the project metadata or None; annotation_meta:
\* the latest run record or None
get_all_fastas(gene_fasta_paths, called_fastas, annotation_meta, use_db, f) ==
    LET gene_fasta_obs ==
            [i \in 1..Len(gene_fasta_paths) |->
                path_to_gene_fastas(gene_fasta_paths[i])]
        called_fastas_obs ==
            IF called_fastas # None THEN called_fastas[1] ELSE <<>>
        all == gene_fasta_obs \o called_fastas_obs
        db_inter ==
            IF annotation_meta # None
            THEN annotation_meta[1].used_dbs \cap use_db ELSE {}
        fasta_inter ==
            IF annotation_meta # None
            THEN annotation_meta[1].fasta_names \cap Range(all) ELSE {}
    IN  IF called_fastas # None /\ has_dup_fasta_name(called_fastas_obs) > 0
        THEN [exception |-> "DramUsageError", stage |-> "duplicate_names",
              fastas |-> all, db_inter |-> {}, fasta_inter |-> {}]
        ELSE IF has_dup_fasta_name(all) > 0
        THEN [exception |-> "DramUsageError", stage |-> "duplicate_names",
              fastas |-> all, db_inter |-> {}, fasta_inter |-> {}]
        ELSE IF db_inter # {} /\ ~f
        THEN [exception |-> "DramUsageError", stage |-> "reannotation",
              fastas |-> all, db_inter |-> db_inter,
              fasta_inter |-> fasta_inter]
        ELSE [exception |-> "none", stage |-> "none",
              fastas |-> all, db_inter |-> db_inter,
              fasta_inter |-> fasta_inter]

\* dict_to_annotation_meta: the recorded annotations.tsv has to exist
get_last_annotation_meta(meta, file) ==
    IF meta.annotations = None
    THEN [exception |-> "none", annotation_meta |-> None]
    ELSE IF ~file.exists
    THEN [exception |-> "DramUsageError", annotation_meta |-> None]
    ELSE [exception |-> "none", annotation_meta |-> meta.annotations]

\* use_db after the members of the chosen sets are added
expanded_use_db(use_db, use_dbset) ==
    use_db \cup UNION {DBSETS[j] : j \in use_dbset}

\* [i(dram_config, logger) for i in DB_KITS if i.name in set(use_db)]
selected_databases(use_db) == {k \in KitNames : k \in use_db}

\* get_custom_faa_dbs and get_custom_hmm_dbs: FastaKit.__init__ reads the
\* undefined name args, HmmKit.__init__ calls setup(), which reads
\* self.logger before anything has set it
get_custom_dbs(n_fasta, n_hmm, n_cutoffs) ==
    IF n_fasta > 0 THEN "NameError"
    ELSE IF n_hmm - n_cutoffs < 0 THEN "DramUsageError"
    ELSE IF n_hmm > 0 THEN "AttributeError"
    ELSE "none"

---------------------------------------------------------------------------
(* annotate *)

KitColumn(k) == k \o "_id"

\* kit.search(fasta): the empty frame when the kit finds nothing in the
\* batch, else one row per local gene id the kit returns, each id once
search_result(k, genes) ==
    IF genes = {} THEN EmptyFrame
    ELSE [cols |-> {KitColumn(k)},
          rows |-> SelectSeq(
              [i \in 1..Len(IdOrder) |->
                  [id |-> IdOrder[i], val |-> [c \in {KitColumn(k)} |-> "X"]]],
              LAMBDA r : r.id \in genes)]

\* kit.search(fasta) in a run of the command: the gene "1" of the batch or
\* nothing
kit_search(k, name, hits) ==
    search_result(k, IF <<k, name>> \in hits THEN {"1"} ELSE {})

\* what the kits can find in a run: a kit finds its gene in every batch or
\* in none
HitSets(dbs, names) == {found \X Range(names) : found \in SUBSET dbs}

\* reduce(partial(pd.merge, left_index=True, right_index=True, how="outer"), frames)
RECURSIVE ReduceMerge(_)
ReduceMerge(frames) ==
    IF Len(frames) = 1 THEN frames[1]
    ELSE ReduceMerge(<<MergeOuter(frames[1], frames[2])>>
                        \o SubSeq(frames, 3, Len(frames)))

\* search_fasta_with_database with the results of the first kit alone
search_fasta_with_database_first_kit(search_results, name) ==
    LET data == search_results[1]
        cs == data.cols \cup {FASTA_COL, GENE_ID_COL}
    IN  [cols |-> cs,
         rows |-> [i \in 1..Len(data.rows) |->
            [id |-> name \o "_" \o data.rows[i].id,
             val |-> [c \in cs |->
                IF c = GENE_ID_COL THEN data.rows[i].id
                ELSE IF c = FASTA_COL THEN name
                ELSE data.rows[i].val[c]]]]]

\* search_results is [j.search(fasta) for j in databases]; the merged frame
\* gets .assign(fasta=name).assign(gene_ids=index), then the index is
\* prefixed with the name of the batch
search_fasta_with_database(search_results, name) ==
    LET data == ReduceMerge(search_results)
        cs == data.cols \cup {FASTA_COL, GENE_ID_COL}
    IN  [cols |-> cs,
         rows |-> [i \in 1..Len(data.rows) |->
            [id |-> name \o "_" \o data.rows[i].id,
             val |-> [c \in cs |->
                IF c = GENE_ID_COL THEN data.rows[i].id
                ELSE IF c = FASTA_COL THEN name
                ELSE data.rows[i].val[c]]]]]

RECURSIVE ConcatAll(_)
ConcatAll(frames) ==
    IF Len(frames) = 0 THEN EmptyFrame
    ELSE IF Len(frames) = 1 THEN frames[1]
    ELSE Concat(frames[1], ConcatAll(Tail(frames)))

\* the databases as a list, in the order of DB_KITS
DatabaseList(dbs) == SelectSeq(DB_KITS, LAMBDA k : k \in dbs)

\* annotate, after every kit is configured: the run table of n_databases
\* kits, results[i] being the search results of the kits on the batch
\* names[i].  The kits modelled keep the default get_descriptions, which
\* returns an empty frame.
annotate(n_databases, names, results) ==
    LET new_annotations ==
            IF n_databases < 1
            THEN [cols |-> {},
                  rows |-> [i \in 1..Len(names) |->
                                [id |-> names[i], val |-> [c \in {} |-> NaN]]]]
            ELSE ConcatAll([i \in 1..Len(names) |->
                    search_fasta_with_database(results[i], names[i])])
        descriptions == [i \in 1..n_databases |-> EmptyFrame]
    IN  ReduceMerge(descriptions \o <<new_annotations>>)

\* the searches of a run of the command: every kit on every batch
run_search_results(dbs, names, hits) ==
    [i \in 1..Len(names) |->
        [j \in 1..Len(dbs) |-> kit_search(dbs[j], names[i], hits)]]

\* annotate_pipe, lines 708-738: the table that is written
annotations_to_write(new_annotations, past_annotation_meta, file, f) ==
    IF past_annotation_meta # None
    THEN merge_past_annotations(new_annotations, read_csv(file.table), f)
    ELSE IF f /\ file.exists
    THEN merge_past_annotations(new_annotations, read_csv(file.table), f)
    ELSE [exception |-> "none", named |-> {}, returned |-> TRUE,
          critical |-> FALSE, table |-> new_annotations]

\* get_time_stamp_id: the time of the run; the runs of the model start at
\* different seconds, the n-th at time n
get_time_stamp_id(prefix, now) == <<prefix, now>>

\* for i in genes_runs.values(): i["annotated"] = True
mark_annotated(meta) ==
    IF meta.genes_called = None THEN meta
    ELSE [meta EXCEPT !.genes_called =
            Some([meta.genes_called[1] EXCEPT !.annotated = TRUE])]

\* make_new_meta_data that records the databases of the run alone
make_new_meta_data_run_only(meta, run_id, dbs, names) ==
    [meta EXCEPT
        !.annotations =
            Some([latest |-> run_id, used_dbs |-> dbs,
                  fasta_names |-> Range(names)]),
        !.fastas = Some(names)]

\* make_new_meta_data: the run record and the list of batches.  Of the run
\* records the one that latest names is kept, under its run id: the others
\* are never read.
make_new_meta_data(meta, run_id, dbs, names) ==
    [meta EXCEPT
        !.annotations =
            Some([latest |-> run_id,
                  used_dbs |-> dbs \cup
                    (IF meta.annotations = None THEN {}
                     ELSE meta.annotations[1].used_dbs),
                  fasta_names |-> Range(names)]),
        !.fastas = Some(names)]

---------------------------------------------------------------------------
(* The commands in one project directory *)

NoRequest == [use_db |-> {}, use_dbset |-> {}, gene_names |-> <<>>]

RunIdle ==
    /\ pc = "idle"
    /\ op = "none"
    /\ request = NoRequest
    /\ force = FALSE
    /\ fastas = <<>>
    /\ databases = {}
    /\ exception = "none"
    /\ stage = "none"
    /\ searches = 0
    /\ indexes = 0
    /\ tsv0 = NoFile
    /\ meta0 = EmptyMeta

\* no function of the kits is called
NoCall == [fn |-> "none"]

NotReturned == [exception |-> "none", returned |-> FALSE]

CallIdle ==
    /\ call = NoCall
    /\ ret = NotReturned
    /\ call_pc = "unused"

MergeIdle ==
    /\ m_new = EmptyFrame
    /\ m_past = EmptyFrame
    /\ m_force = FALSE
    /\ m_out = [exception |-> "none", named |-> {}, returned |-> FALSE,
                critical |-> FALSE, table |-> EmptyFrame]
    /\ m_pc = "unused"

Init ==
    /\ MergeIdle
    /\ CallIdle
    /\ tsv = NoFile
    /\ project_meta = EmptyMeta
    /\ ops = 0
    /\ RunIdle

\* the command ends with an error: nothing more is written
Raise(e, where, n_searches, n_indexes) ==
    /\ pc' = "failed"
    /\ exception' = e
    /\ stage' = where
    /\ searches' = n_searches
    /\ indexes' = n_indexes

\* annotate_pipe from its start to the call of annotate (lines 623-692)
AnnotateAdmit ==
    /\ pc = "idle"
    /\ ops < MaxOps
    /\ ops' = ops + 1
    /\ op' = "annotate"
    /\ tsv0' = tsv
    /\ meta0' = project_meta
    /\ UNCHANGED <<call_vars, merge_vars, disk_vars>>
    /\ \E gene_fasta_paths \in SeqsUpTo(GenePaths, MaxPaths),
          use_db \in SUBSET KitNames,
          use_dbset \in SUBSET (DOMAIN DBSETS),
          f \in BOOLEAN :
        LET past == get_last_annotation_meta(project_meta, tsv)
            got == get_all_fastas(gene_fasta_paths, project_meta.fastas,
                                  past.annotation_meta, use_db, f)
            dbs == selected_databases(expanded_use_db(use_db, use_dbset))
        IN  /\ request' = [use_db |-> use_db, use_dbset |-> use_dbset,
                           gene_names |->
                              [i \in 1..Len(gene_fasta_paths) |->
                                  path_to_gene_fastas(gene_fasta_paths[i])]]
            /\ force' = f
            /\ IF past.exception # "none"
               THEN /\ Raise(past.exception, "past_annotations", 0, 0)
                    /\ fastas' = <<>>
                    /\ databases' = {}
               ELSE IF got.exception # "none"
               THEN /\ Raise(got.exception, got.stage, 0, 0)
                    /\ fastas' = got.fastas
                    /\ databases' = {}
               ELSE IF Len(got.fastas) < 1
               THEN /\ Raise("DramUsageError", "no_fastas", 0, 0)
                    /\ fastas' = got.fastas
                    /\ databases' = dbs
               ELSE /\ fastas' = got.fastas
                    /\ databases' = dbs
                    /\ \E index_fails \in BOOLEAN,
                          n_fasta \in 0..1, n_hmm \in 0..1, n_cutoffs \in 0..1 :
                        /\ IF index_fails
                           THEN Raise("ExternalToolFailure", "index", 0, 1)
                           ELSE IF get_custom_dbs(n_fasta, n_hmm, n_cutoffs) # "none"
                           THEN Raise(get_custom_dbs(n_fasta, n_hmm, n_cutoffs),
                                      "custom_db", 0, Len(got.fastas))
                           ELSE /\ pc' = "searching"
                                /\ exception' = "none"
                                /\ stage' = "none"
                                /\ searches' = 0
                                /\ indexes' = Len(got.fastas)

\* a kit's load_dram_config raises: no search has run (lines 783-795)
AnnotateConfigFails ==
    /\ pc = "searching"
    /\ databases # {}
    /\ Raise("ValueError", "config", 0, indexes)
    /\ UNCHANGED <<call_vars, merge_vars, disk_vars, op, ops, request, force,
                   fastas, databases, tsv0, meta0>>

\* the first kit.search raises (line 559)
AnnotateSearchFails ==
    /\ pc = "searching"
    /\ databases # {}
    /\ Raise("ExternalToolFailure", "search", 1, indexes)
    /\ UNCHANGED <<call_vars, merge_vars, disk_vars, op, ops, request, force,
                   fastas, databases, tsv0, meta0>>

\* annotate_pipe from the call of annotate to its end (lines 694-767)
AnnotateSearchAndSave ==
    /\ pc = "searching"
    /\ UNCHANGED <<call_vars, merge_vars, op, ops, request, force, fastas, databases,
                   tsv0, meta0>>
    /\ \E hits \in HitSets(databases, fastas), rmtree_fails \in BOOLEAN,
          tempory_outside \in BOOLEAN :
        LET n_searches == Cardinality(databases) * Len(fastas)
            new_annotations ==
                annotate(Len(DatabaseList(databases)), fastas,
                         run_search_results(DatabaseList(databases), fastas, hits))
            merged == annotations_to_write(new_annotations, meta0.annotations,
                                           tsv, force)
        IN  IF merged.exception # "none"
            THEN /\ Raise(merged.exception, "merge", n_searches, indexes)
                 /\ UNCHANGED disk_vars
            ELSE /\ tsv' = [exists |-> TRUE, table |-> to_csv(merged.table)]
                 /\ IF rmtree_fails
                    THEN /\ Raise("OSError", "rmtree", n_searches, indexes)
                         /\ UNCHANGED project_meta
                    ELSE IF tempory_outside
                    THEN /\ Raise("ValueError", "meta", n_searches, indexes)
                         /\ UNCHANGED project_meta
                    ELSE /\ project_meta' =
                                make_new_meta_data(mark_annotated(project_meta),
                                                   get_time_stamp_id("annotations", ops),
                                                   databases, fastas)
                         /\ pc' = "done"
                         /\ exception' = "none"
                         /\ stage' = "none"
                         /\ searches' = n_searches
                         /\ indexes' = indexes

\* j[0] for j in i["fastas"]: the first character of a recorded name; the
\* batch names of the model have one character
first_character(name) == name

\* call_genes_pipe, lines 194-210: the names that must not be used again
old_names(meta, f) ==
    IF f \/ meta.genes_called = None THEN None
    ELSE Some([i \in 1..Len(meta.genes_called[1].fastas) |->
                first_character(meta.genes_called[1].fastas[i])])

\* call_genes_pipe: the names are the stems of fasta_paths.
\* get_fasta_names_dirs extends the list of names with old_names in place,
\* so after the check for duplicates it makes (exist_ok=False) the
\* directories of the old names too, which the earlier run has left.
CallGenes ==
    /\ pc = "idle"
    /\ ops < MaxOps
    /\ ops' = ops + 1
    /\ op' = "call_genes"
    /\ tsv0' = tsv
    /\ meta0' = project_meta
    /\ UNCHANGED <<call_vars, merge_vars, tsv, databases>>
    /\ \E fasta_names \in SeqsUpTo(BatchNames, MaxPaths), f \in BOOLEAN :
        LET old == old_names(project_meta, f)
            all_fasta_names ==
                IF old # None THEN fasta_names \o old[1] ELSE fasta_names
        IN  /\ request' = [use_db |-> {}, use_dbset |-> {},
                           gene_names |-> fasta_names]
            /\ force' = f
            /\ fastas' = fasta_names
            /\ IF has_dup_fasta_name(all_fasta_names) > 0
               THEN /\ Raise("DramUsageError", "duplicate_names", 0, 0)
                    /\ UNCHANGED project_meta
               ELSE IF old # None /\ Len(old[1]) > 0
               THEN /\ Raise("FileExistsError", "mkdir", 0, 0)
                    /\ UNCHANGED project_meta
               ELSE IF Len(fasta_names) < 1
               THEN /\ Raise("DramUsageError", "no_genes", 0, 0)
                    /\ UNCHANGED project_meta
               ELSE /\ project_meta' =
                        [project_meta EXCEPT
                            !.genes_called =
                                Some([fastas |-> fasta_names,
                                      annotated |-> FALSE]),
                            !.fastas = Some(fasta_names)]
                    /\ pc' = "done"
                    /\ exception' = "none"
                    /\ stage' = "none"
                    /\ searches' = 0
                    /\ indexes' = 0

\* the process exits
Exit ==
    /\ pc \in {"done", "failed"}
    /\ pc' = "idle"
    /\ op' = "none"
    /\ request' = NoRequest
    /\ force' = FALSE
    /\ fastas' = <<>>
    /\ databases' = {}
    /\ exception' = "none"
    /\ stage' = "none"
    /\ searches' = 0
    /\ indexes' = 0
    /\ tsv0' = NoFile
    /\ meta0' = EmptyMeta
    /\ UNCHANGED <<call_vars, merge_vars, disk_vars, ops>>

Next ==
    \/ AnnotateAdmit
    \/ AnnotateConfigFails
    \/ AnnotateSearchFails
    \/ AnnotateSearchAndSave
    \/ CallGenes
    \/ Exit

Spec == Init /\ [][Next]_vars

---------------------------------------------------------------------------
(* The merge as a function of its arguments: the arguments are drawn from  *)
(* bounded sets of tables and the call is applied once.                    *)

MergeIds == {"A_1", "A_2"}
NewColumns == {FASTA_COL, "K_id"}
PastColumns == {FASTA_COL, "K_id", "J_id"}

\* The table with the columns cs in which gene id g has mult[g] rows; the
\* k-th row of a gene id holds tag \o k in every cell, except that the rows
\* of "A_1" are NaN in the columns of nulls.
MakeTable(cs, mult, nulls, tag) ==
    [cols |-> cs,
     rows |-> Flatten([k \in 1..Len(IdOrder) |->
        IF IdOrder[k] \in MergeIds
        THEN [n \in 1..mult[IdOrder[k]] |->
                [id |-> IdOrder[k],
                 val |-> [c \in cs |->
                    IF IdOrder[k] = "A_1" /\ c \in nulls
                    THEN NaN ELSE tag \o ToString(n)]]]
        ELSE <<>>])]

TablesOver(universe, tag) ==
    {MakeTable(cs, mult, nulls, tag) :
        cs \in SUBSET universe,
        mult \in [MergeIds -> 0..MaxDup],
        nulls \in SUBSET universe}

NotCalled == [exception |-> "none", named |-> {}, returned |-> FALSE,
              critical |-> FALSE, table |-> EmptyFrame]

MergeInit ==
    /\ m_new \in TablesOver(NewColumns, "N")
    /\ m_past \in TablesOver(PastColumns, "P") \cup {m_new}
    /\ m_force \in BOOLEAN
    /\ CallIdle
    /\ m_out = NotCalled
    /\ m_pc = "start"
    /\ tsv = NoFile
    /\ project_meta = EmptyMeta
    /\ ops = 0
    /\ RunIdle

MergeCall ==
    /\ m_pc = "start"
    /\ m_out' = merge_past_annotations(m_new, m_past, m_force)
    /\ m_pc' = "done"
    /\ UNCHANGED <<m_new, m_past, m_force, disk_vars, run_vars, call_vars>>

MergeNext == MergeCall

MergeSpec == MergeInit /\ [][MergeNext]_vars

---------------------------------------------------------------------------
(* Functions of the kits (src/dram2/db_kits/utils/__init__.py) *)

\* A blast-style hits file is a sequence of rows; of BOUTFMT6_COLUMNS the
\* columns that process_reciprocal_best_hits reads are kept.
BOUTFMT6_COLUMNS == {"qId", "tId", "seqIdentity", "bitScore", "eVal"}

\* the columns of the table of process_reciprocal_best_hits
HitColumns(target_prefix) ==
    {target_prefix \o "_hit", target_prefix \o "_RBH",
     target_prefix \o "_identity", target_prefix \o "_bitScore",
     target_prefix \o "_eVal"}

\* the rows of reverse_hits whose index label is the target of the row
ReverseEntries(row, reverse_hits) ==
    {i \in 1..Len(reverse_hits) : reverse_hits[i].qId = row.tId}

check_hit_target_known(row, reverse_hits, target_prefix) ==
    [id |-> row.qId,
     val |-> [c \in HitColumns(target_prefix) |->
        IF c = target_prefix \o "_hit" THEN row.tId
        ELSE IF c = target_prefix \o "_RBH"
            THEN ReverseEntries(row, reverse_hits) # {}
        ELSE IF c = target_prefix \o "_identity" THEN row.seqIdentity
        ELSE IF c = target_prefix \o "_bitScore" THEN row.bitScore
        ELSE row.eVal]]

\* check_hit: reverse_hits holds one row for a query id at most
check_hit(row, reverse_hits, target_prefix) ==
    [id |-> row.qId,
     val |-> [c \in HitColumns(target_prefix) |->
        IF c = target_prefix \o "_hit" THEN row.tId
        ELSE IF c = target_prefix \o "_RBH"
            THEN IF ReverseEntries(row, reverse_hits) # {}
                 THEN row.qId =
                    reverse_hits[CHOOSE i \in ReverseEntries(row, reverse_hits) :
                                    TRUE].tId
                 ELSE FALSE
        ELSE IF c = target_prefix \o "_identity" THEN row.seqIdentity
        ELSE IF c = target_prefix \o "_bitScore" THEN row.bitScore
        ELSE row.eVal]]

\* forward_hits.apply(check_hit, axis=1, result_type="expand") on a frame
\* without rows returns a copy of the frame, which has no column "index":
\* hits.set_index("index") raises KeyError
process_reciprocal_best_hits(forward_hits, reverse_hits, target_prefix) ==
    IF Len(forward_hits) = 0
    THEN [exception |-> "KeyError", returned |-> FALSE, table |-> EmptyFrame]
    ELSE [exception |-> "none", returned |-> TRUE,
          table |-> [cols |-> HitColumns(target_prefix),
                     rows |-> [i \in 1..Len(forward_hits) |->
                        check_hit(forward_hits[i], reverse_hits,
                                  target_prefix)]]]

\* the processes get_best_hits runs, with the threads each is given
\* (0: the command line has no --threads)
get_best_hits(direction, threads) ==
    <<[tool |-> "search", direction |-> direction, threads |-> threads],
      [tool |-> "filterdb", direction |-> direction, threads |-> 0],
      [tool |-> "filterdb", direction |-> direction, threads |-> threads],
      [tool |-> "convertalis", direction |-> direction, threads |-> threads]>>

\* the processes get_reciprocal_best_hits runs
get_reciprocal_best_hits(threads) ==
    <<[tool |-> "swapdb", direction |-> "reverse", threads |-> threads],
      [tool |-> "createsubdb", direction |-> "reverse", threads |-> 0],
      [tool |-> "createsubdb", direction |-> "reverse", threads |-> 0]>>
        \o get_best_hits("reverse", threads)

do_blast_style_search_always_reverse(forward_hits, reverse_hits, db_name, threads) ==
    [exception |-> "none", returned |-> TRUE,
     calls |-> get_best_hits("forward", threads)
                    \o get_reciprocal_best_hits(threads),
     table |-> [cols |-> {db_name \o "_hit"}, rows |-> <<>>]]

\* do_blast_style_search: forward_hits is what the forward search writes,
\* reverse_hits what the reverse search writes if it runs
do_blast_style_search(forward_hits, reverse_hits, db_name, threads) ==
    IF Len(forward_hits) = 0
    THEN [exception |-> "none", returned |-> TRUE,
          calls |-> get_best_hits("forward", threads),
          table |-> [cols |-> {db_name \o "_hit"}, rows |-> <<>>]]
    ELSE LET hits == process_reciprocal_best_hits(forward_hits, reverse_hits,
                                                  db_name)
         IN  [exception |-> hits.exception, returned |-> hits.returned,
              calls |-> get_best_hits("forward", threads)
                            \o get_reciprocal_best_hits(threads),
              table |-> hits.table]

\* E-values are counted in units of 1e-18
DEFAULT_EVALUE_LIM == 1000

\* get_sig_row with a strict coverage bound
get_sig_row_strict(row, evalue_lim) ==
    LET tstart == row.target_start
        tend == row.target_end
        tlen == row.target_length
        evalue == row.full_evalue
    IN  (tend - tstart) * 100 > 35 * tlen /\ evalue <= evalue_lim

\* get_sig_row: perc_cov = (tend - tstart) / tlen is compared with 0.35;
\* tlen > 0
get_sig_row(row, evalue_lim) ==
    LET tstart == row.target_start
        tend == row.target_end
        tlen == row.target_length
        evalue == row.full_evalue
    IN  (tend - tstart) * 100 >= 35 * tlen /\ evalue <= evalue_lim

\* frame[mask]: the positions of the rows whose mask is true, in order
Positions(mask) == SelectSeq([i \in 1..Len(mask) |-> i], LAMBDA i : mask[i])

\* sig_scores: the rows (as positions in hits) whose score exceeds the
\* threshold of their target, group by group in the order of the target
\* ids; score_db has a row for every target
sig_scores(hits, score_db) ==
    LET group(t) ==
            Positions([i \in 1..Len(hits) |->
                /\ hits[i].target_id = t
                /\ score_db[t].score_type # "-"
                /\ (IF score_db[t].score_type = "domain"
                    THEN hits[i].domain_score ELSE hits[i].full_score)
                        > score_db[t].threshold])
    IN  group("t1") \o group("t2")

\* hits_sig.sort_values("full_evalue"): the sort is not a stable one, rows
\* of equal e-value come out in any order
sort_values(hits, positions) ==
    {p \in [1..Len(positions) -> Range(positions)] :
        /\ Range(p) = Range(positions)
        /\ \A i, j \in 1..Len(p) :
              i < j => hits[p[i]].full_evalue <= hits[p[j]].full_evalue}

\* drop_duplicates(subset=["query_id"]): the first row of each query id
drop_duplicates(hits, positions) ==
    SelectSeq([i \in 1..Len(positions) |->
                  IF \E j \in 1..(i - 1) :
                        hits[positions[j]].query_id = hits[positions[i]].query_id
                  THEN 0 ELSE positions[i]],
              LAMBDA x : x # 0)

\* the table of generic_hmmscan_formater for the rows at positions
hits_df(hits, positions, db_name, hmm_info) ==
    LET cs == IF hmm_info = None THEN {db_name \o "_id"}
              ELSE {db_name \o "_id", db_name \o "_hits"}
    IN  [cols |-> cs,
         rows |-> [i \in 1..Len(positions) |->
            [id |-> hits[positions[i]].query_id,
             val |-> [c \in cs |->
                IF c = db_name \o "_id" THEN hits[positions[i]].target_id
                ELSE hmm_info[1][hits[positions[i]].target_id].definition]]]]

\* generic_hmmscan_formater: the tables it can return
generic_hmmscan_formater(hits, db_name, hmm_info, top_hit) ==
    LET hits_sig ==
            IF hmm_info = None
            THEN Positions([i \in 1..Len(hits) |->
                    get_sig_row(hits[i], DEFAULT_EVALUE_LIM)])
            ELSE sig_scores(hits, hmm_info[1])
    IN  IF Len(hits_sig) = 0 THEN {EmptyFrame}
        ELSE IF top_hit
        THEN {hits_df(hits, drop_duplicates(hits, s), db_name, hmm_info) :
                s \in sort_values(hits, hits_sig)}
        ELSE {hits_df(hits, hits_sig, db_name, hmm_info)}

---------------------------------------------------------------------------
(* The threads of a kit (DBKit.set_args and the searches of the kits) *)

\* max_threads of the kit: 2 for FeGenieKit, the -1 of DBKit for MethylKit
max_threads(k) == IF k = "fegenie" THEN 2 ELSE -1

\* DBKit.set_args, as far as the threads go: self.threads = threads
set_args(k, threads) == [name |-> k, threads |-> threads]

\* annotate_pipe, lines 664-705: the split of the cores between the pool
\* that builds the indexes of the batches and the process each worker of
\* the pool runs; annotate is then called with cores=cores, hands them to
\* set_args of every kit, and searches the batches one after the other in
\* the process of the command
thread_budget(k, cores, n_fastas) ==
    LET cores_for_sub_process == IF cores > n_fastas THEN cores ELSE 1
        cores_for_maping == IF cores > n_fastas THEN 1 ELSE cores
    IN  [index_workers |-> cores_for_maping,
         index_threads |-> cores_for_sub_process,
         search_workers |-> 1,
         search_threads |-> set_args(k, cores).threads]

\* run_hmmscan: above HMM_SCAN_MAX_THREADS threads it logs a debug message
\* and goes on; hmmsearch is run with --cpu threads
run_hmmscan(threads) ==
    <<[tool |-> "hmmsearch", direction |-> "forward", threads |-> threads]>>

\* FeGenieKit.search and MethylKit.search: the processes the search runs
kit_search_processes(self, forward_hits, reverse_hits) ==
    IF self.name = "fegenie"
    THEN run_hmmscan(self.threads)
    ELSE do_blast_style_search(forward_hits, reverse_hits, self.name,
                               self.threads).calls

---------------------------------------------------------------------------
(* The life of the kits in annotate (annotate, lines 783-812, and           *)
(* DBKit.get_config_path)                                                   *)

\* DBKit.run_set_up: the class attribute, which nothing sets
run_set_up == FALSE

\* get_config_path on one entry of the kit's config.  The entry tells
\* whether the file has a location in the config, whether that path is
\* absolute, whether the config names a data folder, and whether the file
\* exists.  With run_set_up the function calls setup() and reads the
\* location that is still missing.
get_config_path(entry) ==
    IF ~entry.configured
    THEN (IF ~run_set_up THEN "ValueError" ELSE "KeyError")
    ELSE IF ~entry.absolute /\ ~entry.data_folder THEN "ValueError"
    ELSE IF ~entry.exists /\ ~run_set_up THEN "FileNotFoundError"
    ELSE "none"

\* the files load_dram_config asks for, in its order: FeGenieKit hmmdb and
\* cutoffs, MethylKit mmsdb
required_files(k) == IF k = "fegenie" THEN <<"hmmdb", "cutoffs">> ELSE <<"mmsdb">>

\* load_dram_config of a kit: the first get_config_path that raises, or none
load_dram_config(k, config) ==
    LET raised == SelectSeq(
            [n \in 1..Len(required_files(k)) |->
                get_config_path(config[required_files(k)[n]])],
            LAMBDA e : e # "none")
    IN  IF Len(raised) = 0 THEN "none" ELSE raised[1]

\* the kits are configured as the searches need them: a kit is loaded and
\* given its arguments before its own first search only
annotate_lifecycle_lazy(dbs, config, n_fastas, mkdir_fails) ==
    LET RECURSIVE kits(_)
        kits(j) ==
            IF j > Len(dbs) THEN <<>>
            ELSE IF load_dram_config(dbs[j], config) # "none"
            THEN <<[ev |-> "load_dram_config", kit |-> j, fasta |-> 0,
                    exception |-> load_dram_config(dbs[j], config)]>>
            ELSE <<[ev |-> "load_dram_config", kit |-> j, fasta |-> 0,
                    exception |-> "none"],
                   [ev |-> "set_args", kit |-> j, fasta |-> 0,
                    exception |-> "none"],
                   [ev |-> "search", kit |-> j, fasta |-> 1,
                    exception |-> "none"]>> \o kits(j + 1)
        log == kits(1)
        last == IF Len(log) = 0 THEN "none" ELSE log[Len(log)].exception
    IN  [exception |-> last, returned |-> last = "none", log |-> log]

\* annotate as the calls it makes on the kits, in order: load_dram_config
\* and set_args of every kit (lines 783-795), then, with one kit or more,
\* the search of every kit on every batch (lines 807-812).  An exception
\* ends the function where it is raised.  mkdir_fails is the index of the
\* kit whose working_dir.mkdir raises in set_args, or 0.
annotate_lifecycle(dbs, config, n_fastas, mkdir_fails) ==
    LET RECURSIVE configure(_)
        configure(j) ==
            IF j > Len(dbs) THEN <<>>
            ELSE IF load_dram_config(dbs[j], config) # "none"
            THEN <<[ev |-> "load_dram_config", kit |-> j, fasta |-> 0,
                    exception |-> load_dram_config(dbs[j], config)]>>
            ELSE IF mkdir_fails = j
            THEN <<[ev |-> "load_dram_config", kit |-> j, fasta |-> 0,
                    exception |-> "none"],
                   [ev |-> "set_args", kit |-> j, fasta |-> 0,
                    exception |-> "OSError"]>>
            ELSE <<[ev |-> "load_dram_config", kit |-> j, fasta |-> 0,
                    exception |-> "none"],
                   [ev |-> "set_args", kit |-> j, fasta |-> 0,
                    exception |-> "none"]>> \o configure(j + 1)
        configured == configure(1)
        failed == Len(configured) > 0
                    /\ configured[Len(configured)].exception # "none"
        searched ==
            IF failed \/ Len(dbs) < 1 THEN <<>>
            ELSE Flatten([i \in 1..n_fastas |->
                    [j \in 1..Len(dbs) |->
                        [ev |-> "search", kit |-> j, fasta |-> i,
                         exception |-> "none"]]])
    IN  [exception |-> IF failed THEN configured[Len(configured)].exception
                       ELSE "none",
         returned |-> ~failed,
         log |-> configured \o searched]

---------------------------------------------------------------------------
(* DBKit.get_ids *)

\* the default get_ids on one row of the annotations (a pd.Series): the
\* first test returns the cell whenever the row has the column, the test of
\* pd.isna is in a branch no row reaches
get_ids(k, annotations) ==
    LET main_id == k \o "_id"
    IN  IF main_id \in DOMAIN annotations THEN <<annotations[main_id]>>
        ELSE <<>>

---------------------------------------------------------------------------
(* The searches of the alignment kits (MethylKit.search, PeptidaseKit.search) *)

\* df.rename(columns={old: new})
RenameColumn(t, old, new) ==
    LET cs == (t.cols \ {old}) \cup (IF old \in t.cols THEN {new} ELSE {})
    IN  [cols |-> cs,
         rows |-> [i \in 1..Len(t.rows) |->
            [id |-> t.rows[i].id,
             val |-> [c \in cs |->
                IF c = new /\ old \in t.cols THEN t.rows[i].val[old]
                ELSE t.rows[i].val[c]]]]]

\* tmp_dir = self.working_dir / fasta.name
tmp_dir(k, fasta_name) == <<k, fasta_name>>

\* tmp_dir.mkdir() of MethylKit raises when the directory exists;
\* tmp_dir.mkdir(exist_ok=True, parents=True) of PeptidaseKit does not
kit_mkdir(k, dirs, d) ==
    IF k = "methyl" /\ d \in dirs
    THEN [exception |-> "FileExistsError", dirs |-> dirs]
    ELSE [exception |-> "none", dirs |-> dirs \cup {d}]

\* the search of MethylKit or PeptidaseKit on a batch, dirs being the
\* directories that exist: the directory of the batch is made, the search
\* runs in it, and MethylKit renames the column of the hits
alignment_kit_search(k, dirs, fasta_name, forward_hits, reverse_hits, threads) ==
    LET made == kit_mkdir(k, dirs, tmp_dir(k, fasta_name))
        hits == do_blast_style_search(forward_hits, reverse_hits, k, threads)
    IN  IF made.exception # "none"
        THEN [exception |-> made.exception, returned |-> FALSE,
              dirs |-> made.dirs, table |-> EmptyFrame]
        ELSE [exception |-> hits.exception, returned |-> hits.returned,
              dirs |-> made.dirs,
              table |-> IF k = "methyl"
                        THEN RenameColumn(hits.table, k \o "_hit", k \o "_id")
                        ELSE hits.table]

---------------------------------------------------------------------------
(* The description lookups (src/dram2/db_kits/utils/sql_descriptions.py) *)

\* the number of keys of one query of get_descriptions
CHUNK_SIZE == 499

\* divide_chunks with slices one key too long
divide_chunks_overlap(l, n) ==
    [k \in 1..((Len(l) + n - 1) \div n) |->
        SubSeq(l, (k - 1) * n + 1,
               IF k * n + 1 < Len(l) THEN k * n + 1 ELSE Len(l))]

\* divide_chunks: l[i : i + n] for i in range(0, len(l), n)
divide_chunks(l, n) ==
    [k \in 1..((Len(l) + n - 1) \div n) |->
        SubSeq(l, (k - 1) * n + 1, IF k * n < Len(l) THEN k * n ELSE Len(l))]

\* SQLDescriptions.get_descriptions: the key lists of the queries it issues,
\* in order.  ids that are not a list (a pd.Series) lose their NaN first.
get_descriptions(ids, is_list) ==
    LET keys == IF is_list THEN ids ELSE SelectSeq(ids, LAMBDA x : x # NaN)
    IN  divide_chunks(keys, CHUNK_SIZE)

---------------------------------------------------------------------------
(* check_for_annotations (src/dram2/annotate/__init__.py) *)

\* reduce(lambda x, y: x.intersection(y), sets), sets not empty
RECURSIVE ReduceIntersection(_)
ReduceIntersection(sets) ==
    IF Len(sets) = 1 THEN sets[1]
    ELSE ReduceIntersection(<<sets[1] \cap sets[2]>>
                                \o SubSeq(sets, 3, Len(sets)))

\* the error message, as the databases it names: those of "You need to
\* run annotate with" and, set by set, those of "You need to annotate with"
error_message(you_need_and, you_need_or) ==
    [run_with |-> you_need_and,
     annotate_with |-> IF Len(you_need_or) > 0 THEN you_need_or ELSE <<>>]

\* check_for_annotations that wants every set of the list
check_for_annotations_every_set(annotation_sets, used_dbs) ==
    LET you_need == [i \in 1..Len(annotation_sets) |->
                        annotation_sets[i] \ used_dbs]
        you_need_and == ReduceIntersection(you_need)
        all_or == SelectSeq([i \in 1..Len(you_need) |-> you_need[i] \ you_need_and],
                            LAMBDA x : Cardinality(x) > 0)
        you_need_or == IF Len(all_or) < Cardinality(you_need_and)
                       THEN <<>> ELSE all_or
    IN  IF \A i \in 1..Len(you_need) : Cardinality(you_need[i]) < 1
        THEN None
        ELSE Some(error_message(you_need_and, you_need_or))

\* check_for_annotations: None, or the error message
check_for_annotations(annotation_sets, used_dbs) ==
    LET you_need == [i \in 1..Len(annotation_sets) |->
                        annotation_sets[i] \ used_dbs]
        you_need_and == ReduceIntersection(you_need)
        all_or == SelectSeq([i \in 1..Len(you_need) |-> you_need[i] \ you_need_and],
                            LAMBDA x : Cardinality(x) > 0)
        you_need_or == IF Len(all_or) < Cardinality(you_need_and)
                       THEN <<>> ELSE all_or
    IN  IF \E i \in 1..Len(you_need) : Cardinality(you_need[i]) < 1
        THEN None
        ELSE Some(error_message(you_need_and, you_need_or))

---------------------------------------------------------------------------
(* dict_to_annotation_meta (src/dram2/annotate/__init__.py) *)

\* the keys AnnotationMeta.get_dict writes into a run record
RunRecordTags ==
    {"version", "working_dir", "fastas", "annotation_file",
     "bit_score_threshold", "rbh_bit_score_threshold", "force", "keep_tmp",
     "kofam_use_dbcan2_thresholds", "used_dbs"}

\* the keys in the order dict_to_annotation_meta subscripts the record:
\* four of them before the annotation file is looked at, six after
ReadBeforeFile == <<"used_dbs", "fastas", "working_dir", "annotation_file">>
ReadAfterFile ==
    <<"bit_score_threshold", "rbh_bit_score_threshold", "version", "force",
      "keep_tmp", "kofam_use_dbcan2_thresholds">>

\* annotation_dict[tag] for each tag of the list: KeyError at a missing one
Subscripts(keys, tags) ==
    IF \E i \in 1..Len(tags) : tags[i] \notin keys THEN "KeyError" ELSE "none"

\* dict_to_annotation_meta of a record with these keys, when the recorded
\* annotations.tsv exists or not
dict_to_annotation_meta(keys, exists) ==
    IF Subscripts(keys, ReadBeforeFile) # "none"
    THEN [exception |-> "KeyError", returned |-> FALSE]
    ELSE IF "annotation_file" \notin keys
    THEN [exception |-> "DramUsageError", returned |-> FALSE]
    ELSE IF ~exists
    THEN [exception |-> "DramUsageError", returned |-> FALSE]
    ELSE IF Subscripts(keys, ReadAfterFile) # "none"
    THEN [exception |-> "KeyError", returned |-> FALSE]
    ELSE [exception |-> "none", returned |-> TRUE]

---------------------------------------------------------------------------
(* The functions of the kits as calls: the arguments are drawn from bounded *)
(* sets and the function is applied once.                                   *)

Genes == {"g1", "g2"}

Targets == {"t1", "t2"}

\* the k-th row of a hits file: identity, bit score and e-value differ from
\* row to row
Hit(q, t, k) ==
    [qId |-> q, tId |-> t, seqIdentity |-> 90 + k, bitScore |-> 100 * k,
     eVal |-> k]

\* forward hit files of up to MaxHits rows
ForwardFiles ==
    UNION {{[k \in 1..n |-> Hit(qt[k][1], qt[k][2], k)] :
                qt \in [1..n -> Genes \X Targets]} : n \in 0..MaxHits}

\* reverse hit files: the top hit of each target that has one (filterdb
\* --extract-lines 1), in the order of Targets
ReverseOf(f) ==
    LET order == <<"t1", "t2">>
        kept == SelectSeq(order, LAMBDA t : f[t] # "none")
    IN  [k \in 1..Len(kept) |-> Hit(kept[k], f[kept[k]], k)]

ReverseFiles == {ReverseOf(f) : f \in [Targets -> Genes \cup {"none"}]}

\* a row of the table of parse_hmmsearch_domtblout: the columns the
\* formater reads
HmmRow(q, t, tend, tlen, evalue, score) ==
    [query_id |-> q, target_id |-> t, target_start |-> 1,
     target_end |-> tend, target_length |-> tlen, full_evalue |-> evalue,
     full_score |-> 100 - score, domain_score |-> score]

\* rows at and around the two bounds of get_sig_row
SigRows ==
    {HmmRow("g1", "t1", c[1], c[2], e, 60) :
        c \in {<<35, 100>>, <<36, 100>>, <<37, 100>>, <<86, 100>>,
               <<7, 20>>, <<8, 20>>, <<1, 20>>},
        e \in {0, 1, 2, 999, 1000, 1001}}

SigCalls ==
    [fn : {"get_sig_row"}, row : SigRows, evalue_lim : {None, Some(1)}]

\* rows for the formater: covered or not, e-value 0 or at the limit, and a
\* score above or below the thresholds of hmm_info
FormaterRows ==
    {HmmRow(q, t, tend, 100, e, score) :
        q \in Genes, t \in Targets, tend \in {30, 90}, e \in {0, 1000},
        score \in {40, 60}}

\* the table read from hmm_info_path, by target id
HmmInfo ==
    [t \in Targets |->
        IF t = "t1"
        THEN [score_type |-> "domain", threshold |-> 50, definition |-> "d1"]
        ELSE [score_type |-> "full", threshold |-> 50, definition |-> "d2"]]

FormaterCalls ==
    [fn : {"generic_hmmscan_formater"},
     hits : SeqsUpTo(FormaterRows, MaxHits) \ {<<>>},
     hmm_info : {None, Some(HmmInfo)}]

BlastCalls ==
    [fn : {"do_blast_style_search"}, forward_hits : ForwardFiles,
     reverse_hits : ReverseFiles, threads : 1..MaxThreads]

RbhCalls ==
    [fn : {"process_reciprocal_best_hits"}, forward_hits : ForwardFiles,
     reverse_hits : ReverseFiles]

\* local gene ids of a batch, as a kit reports them
LocalGenes == {"1", "1_1", "2"}

\* the batches of a call of annotate: their names differ
FastaLists == {<<"A">>, <<"A", "B">>, <<"A", "A_1">>}

\* the kits of a call of annotate, by name: no kit, one kit, two kits of
\* different names, and two kits of one name (annotate takes any list of
\* DBKit objects; a kit's columns are named after its name)
DatabaseLists == SeqsUpTo(KitNames, 2)

\* found[i][j]: the local gene ids the j-th kit returns for the i-th batch
AnnotateCalls ==
    UNION {[fn : {"annotate"}, databases : {dbs}, fastas : {names},
            found : [1..Len(names) -> [1..Len(dbs) -> SUBSET LocalGenes]]] :
                dbs \in DatabaseLists, names \in FastaLists}

\* a kit is given its arguments by annotate and then searches one batch
SearchCalls ==
    [fn : {"search"}, kit : KitNames, cores : 1..MaxThreads,
     forward_hits : {<<>>, <<Hit("g1", "t1", 1)>>},
     reverse_hits : {<<Hit("t1", "g1", 1)>>}]

\* the state of a file of a kit's config
ConfigEntries ==
    {[configured |-> FALSE, absolute |-> FALSE, data_folder |-> FALSE, exists |-> FALSE],
     [configured |-> TRUE, absolute |-> FALSE, data_folder |-> FALSE, exists |-> TRUE],
     [configured |-> TRUE, absolute |-> FALSE, data_folder |-> TRUE, exists |-> TRUE],
     [configured |-> TRUE, absolute |-> TRUE, data_folder |-> FALSE, exists |-> FALSE],
     [configured |-> TRUE, absolute |-> TRUE, data_folder |-> FALSE, exists |-> TRUE]}

LifecycleCalls ==
    [fn : {"annotate_lifecycle"}, databases : DatabaseLists,
     config : [{"hmmdb", "cutoffs", "mmsdb"} -> ConfigEntries],
     n_fastas : 1..MaxPaths, mkdir_fails : 0..2]

\* rows of an annotation table: some of the columns, cells with a value or
\* NaN
AnnotationRows ==
    UNION {[cs -> {"X", NaN}] :
              cs \in SUBSET {"fegenie_id", "methyl_id", FASTA_COL}}

GetIdsCalls == [fn : {"get_ids"}, kit : KitNames, annotations : AnnotationRows]

\* the kits that search with do_blast_style_search
AlignmentKits == {"methyl", "peptidase"}

\* one kit searches one batch twice, with the same files of hits
SearchTwiceCalls ==
    [fn : {"search_twice"}, kit : AlignmentKits, fasta : BatchNames,
     forward_hits : ForwardFiles, reverse_hits : ReverseFiles]

\* a run of annotate with a budget of cores and a number of batches
ThreadBudgetCalls ==
    [fn : {"thread_budget"}, kit : KitNames, cores : 1..MaxThreads,
     n_fastas : 1..MaxThreads]

\* lists to divide: short ones of any keys, with chunks of one to three
DivideChunksCalls ==
    [fn : {"divide_chunks"}, l : SeqsUpTo({"k1", "k2"}, 4), n : 1..3]

\* n keys, different from one another
Keys(n) == [i \in 1..n |-> ToString(i)]

\* the ids of a lookup: a few keys or missing values, or as many keys as
\* one, two and three queries hold, one more and one less
GetDescriptionsCalls ==
    [fn : {"get_descriptions"},
     ids : SeqsUpTo({"k1", NaN}, 2)
            \cup {Keys(n) : n \in {CHUNK_SIZE - 1, CHUNK_SIZE, CHUNK_SIZE + 1,
                                   2 * CHUNK_SIZE, 2 * CHUNK_SIZE + 1}},
     is_list : BOOLEAN]

\* one or two required sets over the databases of ADJECTIVES_SET that the
\* model names, and the databases a project has
RequiredDbs == {"fegenie", "methyl", "heme"}

CheckForAnnotationsCalls ==
    [fn : {"check_for_annotations"},
     annotation_sets : SeqsUpTo(SUBSET RequiredDbs, 2) \ {<<>>},
     used_dbs : SUBSET RequiredDbs]

\* run records with any of the keys, the recorded file there or not
DictToAnnotationMetaCalls ==
    [fn : {"dict_to_annotation_meta"},
     keys : SUBSET RunRecordTags,
     exists : BOOLEAN]

KitInit ==
    /\ MergeIdle
    /\ tsv = NoFile
    /\ project_meta = EmptyMeta
    /\ ops = 0
    /\ RunIdle
    /\ \/ call \in BlastCalls
       \/ call \in RbhCalls
       \/ call \in SigCalls
       \/ call \in FormaterCalls
       \/ call \in AnnotateCalls
       \/ call \in SearchCalls
       \/ call \in LifecycleCalls
       \/ call \in GetIdsCalls
       \/ call \in SearchTwiceCalls
       \/ call \in ThreadBudgetCalls
       \/ call \in DivideChunksCalls
       \/ call \in GetDescriptionsCalls
       \/ call \in CheckForAnnotationsCalls
       \/ call \in DictToAnnotationMetaCalls
    /\ ret = NotReturned
    /\ call_pc = "start"

Return(r) ==
    /\ call_pc = "start"
    /\ ret' = r
    /\ call_pc' = "done"
    /\ UNCHANGED <<call, merge_vars, disk_vars, run_vars>>

Call_do_blast_style_search ==
    /\ call.fn = "do_blast_style_search"
    /\ Return(do_blast_style_search(call.forward_hits, call.reverse_hits,
                                    "target", call.threads))

Call_process_reciprocal_best_hits ==
    /\ call.fn = "process_reciprocal_best_hits"
    /\ Return(process_reciprocal_best_hits(call.forward_hits,
                                           call.reverse_hits, "target"))

Call_get_sig_row ==
    /\ call.fn = "get_sig_row"
    /\ Return([exception |-> "none", returned |-> TRUE,
               value |-> IF call.evalue_lim = None
                         THEN get_sig_row(call.row, DEFAULT_EVALUE_LIM)
                         ELSE get_sig_row(call.row, call.evalue_lim[1])])

\* run_hmmscan calls the formater with top_hit left at True and with one
\* row at least
Call_generic_hmmscan_formater ==
    /\ call.fn = "generic_hmmscan_formater"
    /\ \E table \in generic_hmmscan_formater(call.hits, "target",
                                              call.hmm_info, TRUE) :
            Return([exception |-> "none", returned |-> TRUE, table |-> table])

Call_annotate ==
    /\ call.fn = "annotate"
    /\ Return([exception |-> "none", returned |-> TRUE,
               table |-> annotate(Len(call.databases), call.fastas,
                    [i \in 1..Len(call.fastas) |->
                        [j \in 1..Len(call.databases) |->
                            search_result(call.databases[j],
                                          call.found[i][j])]])])

\* annotate, lines 783-795, hands cores to set_args as threads; the search
\* of the kit follows
Call_search ==
    /\ call.fn = "search"
    /\ LET self == set_args(call.kit, call.cores)
       IN  Return([exception |-> "none", returned |-> TRUE,
                   threads |-> self.threads,
                   calls |-> kit_search_processes(self, call.forward_hits,
                                                   call.reverse_hits)])

Call_annotate_lifecycle ==
    /\ call.fn = "annotate_lifecycle"
    /\ Return(annotate_lifecycle(call.databases, call.config, call.n_fastas,
                                 call.mkdir_fails))

Call_get_ids ==
    /\ call.fn = "get_ids"
    /\ Return([exception |-> "none", returned |-> TRUE,
               value |-> get_ids(call.kit, call.annotations)])

\* set_args has made the working directory of the kit; the second search
\* finds the directories the first one left
Call_search_twice ==
    /\ call.fn = "search_twice"
    /\ LET first == alignment_kit_search(call.kit, {}, call.fasta,
                        call.forward_hits, call.reverse_hits, 1)
           second == alignment_kit_search(call.kit, first.dirs, call.fasta,
                        call.forward_hits, call.reverse_hits, 1)
       IN  Return([exception |-> IF first.exception # "none"
                                 THEN first.exception ELSE second.exception,
                   returned |-> first.returned /\ second.returned,
                   first |-> first, second |-> second])

Call_thread_budget ==
    /\ call.fn = "thread_budget"
    /\ Return([exception |-> "none", returned |-> TRUE,
               budget |-> thread_budget(call.kit, call.cores, call.n_fastas)])

Call_divide_chunks ==
    /\ call.fn = "divide_chunks"
    /\ Return([exception |-> "none", returned |-> TRUE,
               chunks |-> divide_chunks(call.l, call.n)])

Call_get_descriptions ==
    /\ call.fn = "get_descriptions"
    /\ Return([exception |-> "none", returned |-> TRUE,
               queries |-> get_descriptions(call.ids, call.is_list)])

Call_check_for_annotations ==
    /\ call.fn = "check_for_annotations"
    /\ Return([exception |-> "none", returned |-> TRUE,
               value |-> check_for_annotations(call.annotation_sets,
                                               call.used_dbs)])

Call_dict_to_annotation_meta ==
    /\ call.fn = "dict_to_annotation_meta"
    /\ Return(dict_to_annotation_meta(call.keys, call.exists))

KitNext ==
    \/ Call_do_blast_style_search
    \/ Call_process_reciprocal_best_hits
    \/ Call_get_sig_row
    \/ Call_generic_hmmscan_formater
    \/ Call_annotate
    \/ Call_search
    \/ Call_annotate_lifecycle
    \/ Call_get_ids
    \/ Call_search_twice
    \/ Call_thread_budget
    \/ Call_divide_chunks
    \/ Call_get_descriptions
    \/ Call_check_for_annotations
    \/ Call_dict_to_annotation_meta

KitSpec == KitInit /\ [][KitNext]_vars

---------------------------------------------------------------------------
(* Properties of merge_past_annotations, checked under MergeSpec *)

\* the columns both arguments have outside the allow-list {fasta, gene_ids}
SharedOutsideAllowList == (m_new.cols \cap m_past.cols) \ {"fasta", "gene_ids"}

\* the gene ids both arguments have
SharedGenes == IndexSet(m_new) \cap IndexSet(m_past)

\* the values a table holds for gene id g in column c
Cells(t, g, c) == {RowsOf(t, g)[i].val[c] : i \in 1..Len(RowsOf(t, g))}

\* the rows of gene id g, in order, cut to the columns cs
Project(t, g, cs) ==
    [i \in 1..Len(RowsOf(t, g)) |-> [c \in cs |-> RowsOf(t, g)[i].val[c]]]

UniqueIds(t) ==
    \A i, j \in 1..Len(t.rows) : t.rows[i].id = t.rows[j].id => i = j

AllIds == {IdOrder[k] : k \in 1..Len(IdOrder)}

\* the same columns, the same rows per gene id and the same value in every cell
SameTable(a, b) ==
    /\ a.cols = b.cols
    /\ \A g \in AllIds : Project(a, g, a.cols) = Project(b, g, a.cols)

\* C1: with force=False, when past and new share a column outside the
\* allow-list {fasta, gene_ids}, the merge raises DramUsageError, the message
\* names every such column and no table is returned, whether or not a gene id
\* is shared.
C1_CollisionRefused ==
    (m_pc = "done" /\ ~m_force /\ SharedOutsideAllowList # {})
        => /\ m_out.exception = "DramUsageError"
           /\ SharedOutsideAllowList \subseteq m_out.named
           /\ ~m_out.returned

C1_Witness ==
    /\ m_pc = "done" /\ ~m_force
    /\ "K_id" \in SharedOutsideAllowList
    /\ SharedGenes = {}
    /\ Len(m_new.rows) > 0 /\ Len(m_past.rows) > 0
    /\ m_out.exception = "DramUsageError"

\* C2: with force=True the merge succeeds, and for every gene id in both
\* tables and every column in both tables the result holds the value of new,
\* also when that value is null.
C2_ForcedNewWins ==
    (m_pc = "done" /\ m_force)
        => /\ m_out.returned
           /\ \A g \in SharedGenes : \A c \in m_new.cols \cap m_past.cols :
                /\ c \in m_out.table.cols
                /\ Cells(m_out.table, g, c) = Cells(m_new, g, c)

C2_Witness ==
    /\ m_pc = "done" /\ m_force /\ m_out.returned
    /\ "A_1" \in SharedGenes
    /\ "K_id" \in m_new.cols \cap m_past.cols
    /\ Cells(m_new, "A_1", "K_id") = {NaN}
    /\ Cells(m_past, "A_1", "K_id") = {"P1"}
    /\ Cells(m_out.table, "A_1", "K_id") = {NaN}

\* C3: in every merge that completes, a gene id in both tables keeps the past
\* value of every column of past that is not a column of new; only the
\* columns both tables have are taken from new.
C3_PastOnlyColumnsKept ==
    (m_pc = "done" /\ m_out.returned)
        => \A g \in SharedGenes :
            /\ \A c \in m_past.cols \ m_new.cols :
                /\ c \in m_out.table.cols
                /\ Cells(m_out.table, g, c) = Cells(m_past, g, c)
            /\ \A c \in m_past.cols \cap m_new.cols :
                /\ c \in m_out.table.cols
                /\ Cells(m_out.table, g, c) = Cells(m_new, g, c)

C3_Witness ==
    /\ m_pc = "done" /\ m_out.returned
    /\ "A_2" \in SharedGenes
    /\ "J_id" \in m_past.cols /\ "K_id" \in m_past.cols \cap m_new.cols
    /\ Cells(m_out.table, "A_2", "J_id") = {"P1"}
    /\ Cells(m_out.table, "A_2", "K_id") = {"N1"}

\* C4: in every merge that completes, every row of past whose gene id is not
\* in new is in the result with all its past values, the values in the
\* columns that collide with new's columns included.
C4_AbsentRowsUntouched ==
    (m_pc = "done" /\ m_out.returned)
        => \A g \in IndexSet(m_past) \ IndexSet(m_new) :
            /\ m_past.cols \subseteq m_out.table.cols
            /\ Project(m_out.table, g, m_past.cols)
                    = Project(m_past, g, m_past.cols)

C4_Witness ==
    /\ m_pc = "done" /\ m_force /\ m_out.returned
    /\ "K_id" \in m_past.cols \cap m_new.cols
    /\ "A_1" \in SharedGenes
    /\ "A_2" \in IndexSet(m_past) \ IndexSet(m_new)
    /\ Cells(m_past, "A_1", "K_id") = {"P1"}
    /\ Cells(m_out.table, "A_1", "K_id") = {"N1"}
    /\ Cells(m_out.table, "A_2", "K_id") = {"P1"}

\* C5 as stated: merging a table into itself gives, whenever the merge
\* completes, the same rows, the same columns and the same value in every
\* cell.
C5_SelfMergeAnyTable ==
    (m_pc = "done" /\ m_new = m_past /\ m_out.returned)
        => SameTable(m_out.table, m_new)

\* C5 as amended: merging a table whose gene ids are unique into itself
\* gives, whenever the merge completes (force=True, or no column outside the
\* allow-list), the same rows, the same columns and the same value in every
\* cell.
C5_SelfMergeUniqueIds ==
    (m_pc = "done" /\ m_new = m_past /\ m_out.returned /\ UniqueIds(m_new))
        => SameTable(m_out.table, m_new)

C5_Witness ==
    /\ m_pc = "done" /\ m_new = m_past /\ m_out.returned
    /\ UniqueIds(m_new) /\ Len(m_new.rows) = 2
    /\ m_new.cols = {"fasta", "K_id"}
    /\ SameTable(m_out.table, m_new)

---------------------------------------------------------------------------
(* Claims about the commands in one project directory *)

\* the (gene id, column, value) triples the file holds; an empty field is
\* no value
StoredValues(file) ==
    {<<x[1].id, x[2], x[1].val[x[2]]>> :
        x \in {y \in Range(file.table.rows) \X file.table.cols :
                    y[1].val[y[2]] # ""}}

AnnotateEnded == op = "annotate" /\ pc \in {"done", "failed"}

\* two positions of the run's batches carry the same name
SameNameTwice(names) ==
    \E i, j \in 1..Len(names) : i # j /\ names[i] = names[j]

\* C6: after an annotate run without force, successful or failed, every
\* (gene id, column) value that annotations.tsv held before the run is still
\* in annotations.tsv with the same value.
C6_UnforcedRunKeepsStoredValues ==
    (AnnotateEnded /\ ~force) => StoredValues(tsv0) \subseteq StoredValues(tsv)

\* the databases asked for with use_db that the latest run record lists
RequestedAndRecorded ==
    IF meta0.annotations = None THEN {}
    ELSE request.use_db \cap meta0.annotations[1].used_dbs

\* the batches of this run that the latest run record lists
BatchesRecorded ==
    IF meta0.annotations = None THEN {}
    ELSE Range(fastas) \cap meta0.annotations[1].fasta_names

\* C7: a run whose batch names are unique is refused for re-annotation
\* exactly when force is not set, a requested database is recorded as
\* applied and a batch of the run is among the batches it was applied to.
C7_AdmissionPerBatch ==
    (op = "annotate" /\ pc # "idle" /\ ~SameNameTwice(fastas))
        => ((exception = "DramUsageError" /\ stage = "reannotation")
                <=> (~force /\ RequestedAndRecorded # {}
                        /\ BatchesRecorded # {}))

\* the run got as far as reading the batches
BatchesRead == op = "annotate" /\ pc # "idle" /\ stage # "past_annotations"

\* a gene file passed to this run has a name the project metadata listed
\* when the run started
SuppliedAgain ==
    /\ meta0.fastas # None
    /\ Range(request.gene_names) \cap Range(meta0.fastas[1]) # {}

Refused ==
    /\ pc = "failed"
    /\ exception = "DramUsageError"
    /\ stage = "duplicate_names"
    /\ searches = 0
    /\ indexes = 0

C9_FailedRunLeavesStoreUntouched ==
    (op = "annotate" /\ pc = "failed")
        => (tsv = tsv0 /\ project_meta = meta0)

\* C10: when an annotate run ends with DramUsageError, no search of a kit
\* has been called in that run.
C10_UsageErrorBeforeAnySearch ==
    (op = "annotate" /\ pc = "failed" /\ exception = "DramUsageError")
        => searches = 0

\* the run selects no database: none with use_db, none through use_dbset,
\* and it did not stop while its batches were indexed or its custom
\* databases were built
EmptyDatabaseSelection ==
    /\ AnnotateEnded
    /\ selected_databases(expanded_use_db(request.use_db, request.use_dbset)) = {}
    /\ stage \notin {"index", "custom_db"}

\* C11: an annotate run that selects no database ends with DramUsageError
\* and leaves annotations.tsv and the project metadata as they were.
C11_EmptySelectionIsUsageError ==
    EmptyDatabaseSelection
        => /\ pc = "failed"
           /\ exception = "DramUsageError"
           /\ tsv = tsv0
           /\ project_meta = meta0

\* used_dbs of the latest run record of the metadata, {} without a record
LatestUsedDbs(meta) ==
    IF meta.annotations = None THEN {} ELSE meta.annotations[1].used_dbs

\* C21: a run of annotate that succeeds leaves metadata whose latest entry
\* names this run, and the used_dbs of that record hold the used_dbs of
\* the record that was latest before and the name of every kit of this
\* run; no step of any command takes a database out of the latest used_dbs
C21_UsedDbsCumulative ==
    [][/\ LatestUsedDbs(project_meta) \subseteq LatestUsedDbs(project_meta')
       /\ (project_meta.annotations # None => project_meta'.annotations # None)
       /\ (pc = "searching" /\ pc' = "done") =>
            /\ project_meta'.annotations # None
            /\ project_meta'.annotations[1].latest = <<"annotations", ops>>
            /\ databases \subseteq LatestUsedDbs(project_meta')]_vars

\* a second run with another kit has succeeded: both kits are recorded
C21_Witness ==
    /\ pc = "done"
    /\ op = "annotate"
    /\ LatestUsedDbs(meta0) = {"fegenie"}
    /\ databases = {"methyl"}
    /\ LatestUsedDbs(project_meta) = {"fegenie", "methyl"}
    /\ project_meta.annotations[1].latest = <<"annotations", ops>>

\* C28: the admission check covers every database the run searches with:
\* with force unset no run of annotate reaches the search stage while one
\* of its databases, picked with use_db or as a member of a set of
\* use_dbset, is in the used_dbs of the latest run record
C28_AdmissionCoversEveryDatabase ==
    (op = "annotate" /\ pc = "searching" /\ ~force) =>
        databases \cap LatestUsedDbs(meta0) = {}

---------------------------------------------------------------------------
(* Claims about the functions of the kits, checked under KitSpec *)

Called(fn) == call_pc = "done" /\ call.fn = fn

\* positions in the processes run of the mmseqs search in a direction
Searches(direction) ==
    {i \in 1..Len(ret.calls) :
        ret.calls[i].tool = "search" /\ ret.calls[i].direction = direction}

\* C12: do_blast_style_search with an empty forward output returns a table
\* without rows and runs nothing in the reverse direction; with a non-empty
\* forward output it runs the reverse search exactly once, after the forward
\* search, with at least the threads it was given.
C12_ReverseSearchOnlyAfterForwardHits ==
    Called("do_blast_style_search") =>
        IF Len(call.forward_hits) = 0
        THEN /\ ret.returned
             /\ Len(ret.table.rows) = 0
             /\ \A i \in 1..Len(ret.calls) : ret.calls[i].direction # "reverse"
        ELSE /\ Cardinality(Searches("reverse")) = 1
             /\ \A i \in Searches("reverse") :
                    /\ \E j \in Searches("forward") : j < i
                    /\ ret.calls[i].threads >= call.threads

C12_Witness ==
    /\ Called("do_blast_style_search")
    /\ Len(call.forward_hits) = 2
    /\ call.threads = 3
    /\ Cardinality(Searches("reverse")) = 1
    /\ \A i \in Searches("reverse") : ret.calls[i].threads = 3
    /\ ret.returned /\ Len(ret.table.rows) = 2

\* the forward row i is in the table at position i with its values, and
\* its RBH flag says that the reverse hits hold its target with its query
RowOfForwardHit(i) ==
    LET row == call.forward_hits[i]
        out == ret.table.rows[i]
    IN  /\ out.id = row.qId
        /\ out.val["target_hit"] = row.tId
        /\ out.val["target_identity"] = row.seqIdentity
        /\ out.val["target_bitScore"] = row.bitScore
        /\ out.val["target_eVal"] = row.eVal
        /\ out.val["target_RBH"] \in BOOLEAN
        /\ out.val["target_RBH"] <=>
                \E k \in 1..Len(call.reverse_hits) :
                    /\ call.reverse_hits[k].qId = row.tId
                    /\ call.reverse_hits[k].tId = row.qId

OneRowPerForwardHit ==
    /\ ret.returned
    /\ Len(ret.table.rows) = Len(call.forward_hits)
    /\ \A i \in 1..Len(call.forward_hits) : RowOfForwardHit(i)

EvalueLimit ==
    IF call.evalue_lim = None THEN 1000 ELSE call.evalue_lim[1]

\* C14: get_sig_row is true exactly when the aligned span of the target is
\* at least 35 hundredths of the target length and the e-value is at most
\* the limit, 1e-15 unless one is passed; both bounds are inclusive.
C14_SignificantRow ==
    Called("get_sig_row") =>
        (ret.value <=>
            /\ 20 * (call.row.target_end - call.row.target_start)
                    >= 7 * call.row.target_length
            /\ call.row.full_evalue <= EvalueLimit)

\* a row exactly on both bounds is significant
C14_Witness ==
    /\ Called("get_sig_row")
    /\ call.evalue_lim = None
    /\ call.row.target_start = 1 /\ call.row.target_end = 36
    /\ call.row.target_length = 100
    /\ call.row.full_evalue = 1000
    /\ ret.value = TRUE

\* the row at position i of hits is significant for the call
Significant(i) ==
    IF call.hmm_info = None
    THEN get_sig_row(call.hits[i], DEFAULT_EVALUE_LIM)
    ELSE i \in Range(sig_scores(call.hits, call.hmm_info[1]))

SignificantOf(q) ==
    {i \in 1..Len(call.hits) : Significant(i) /\ call.hits[i].query_id = q}

\* the first of the significant hits of q that have the least e-value
FirstBest(q) ==
    CHOOSE i \in SignificantOf(q) :
        \A j \in SignificantOf(q) :
            \/ call.hits[i].full_evalue < call.hits[j].full_evalue
            \/ (call.hits[i].full_evalue = call.hits[j].full_evalue /\ i <= j)

\* C15: with top_hit=True the table of generic_hmmscan_formater has one row
\* for each query id that has a significant hit and none for the others;
\* the row holds the target of the query's significant hit of least
\* e-value, the first in the order of the input among those of least
\* e-value.
C15_TopHitFirstOfLeastEvalue ==
    Called("generic_hmmscan_formater") =>
        /\ \A q \in Genes :
              Cardinality({k \in 1..Len(ret.table.rows) :
                                ret.table.rows[k].id = q})
                  = IF SignificantOf(q) # {} THEN 1 ELSE 0
        /\ \A k \in 1..Len(ret.table.rows) :
              /\ SignificantOf(ret.table.rows[k].id) # {}
              /\ ret.table.rows[k].val["target_id"]
                    = call.hits[FirstBest(ret.table.rows[k].id)].target_id

\* the local gene ids that one kit at least returns for the i-th batch
FoundInBatch(i) ==
    UNION {call.found[i][j] : j \in 1..Len(call.databases)}

\* the rows of the table that carry the batch name and the local gene id
RowsOfGene(t, name, g) ==
    SelectSeq(t.rows, LAMBDA r : r.val[FASTA_COL] = name /\ r.val[GENE_ID_COL] = g)

RECURSIVE SumOver(_, _)
SumOver(f, n) == IF n = 0 THEN 0 ELSE f[n] + SumOver(f, n - 1)

\* the kits of the call have different names, so different columns
DifferentKits ==
    \A j, k \in 1..Len(call.databases) :
        call.databases[j] = call.databases[k] => j = k

\* C16: the table annotate builds from the batches and one or more kits of
\* different names holds, for each batch, exactly one row per local gene id
\* that one kit at least returned for the batch and no other row, so its
\* length is the sum of those counts; the fasta column of each row is the
\* name of its batch, and the column of a kit is not null in the rows of
\* the genes the kit returned
C16_RunTableIsOuterJoinPerBatch ==
    (Called("annotate") /\ Len(call.databases) >= 1 /\ DifferentKits) =>
        LET t == ret.table IN
        /\ FASTA_COL \in t.cols /\ GENE_ID_COL \in t.cols
        /\ \A i \in 1..Len(call.fastas), g \in LocalGenes :
              Len(RowsOfGene(t, call.fastas[i], g))
                  = (IF g \in FoundInBatch(i) THEN 1 ELSE 0)
        /\ \A n \in 1..Len(t.rows) :
              \E i \in 1..Len(call.fastas) :
                  /\ t.rows[n].val[FASTA_COL] = call.fastas[i]
                  /\ t.rows[n].val[GENE_ID_COL] \in FoundInBatch(i)
        /\ FrameLen(t) = SumOver([i \in 1..Len(call.fastas) |->
                                    Cardinality(FoundInBatch(i))],
                                 Len(call.fastas))
        /\ \A i \in 1..Len(call.fastas), j \in 1..Len(call.databases) :
              \A g \in call.found[i][j] :
                  /\ KitColumn(call.databases[j]) \in t.cols
                  /\ \A n \in 1..Len(t.rows) :
                        (t.rows[n].val[FASTA_COL] = call.fastas[i]
                            /\ t.rows[n].val[GENE_ID_COL] = g)
                        => t.rows[n].val[KitColumn(call.databases[j])] # NaN

\* batches A and B, a kit that returns three genes for A and two for B, a
\* second kit that returns one gene the first did not: five rows
C16_Witness ==
    /\ Called("annotate")
    /\ call.fastas = <<"A", "B">>
    /\ call.databases = <<"fegenie", "methyl">>
    /\ call.found[1][1] = LocalGenes
    /\ call.found[2][1] = {"1"}
    /\ call.found[2][2] = {"2"}
    /\ FrameLen(ret.table) = 5

\* C17: the names of the batches of a call differ, and two rows of the
\* table that annotate returns for two different (batch, local gene id)
\* pairs never carry the same row id
C17_RowIdsGloballyUnique ==
    (Called("annotate") /\ Len(call.databases) >= 1) =>
        \A n, m \in 1..Len(ret.table.rows) :
            LET r == ret.table.rows[n]
                q == ret.table.rows[m]
            IN  (r.val[FASTA_COL] # q.val[FASTA_COL]
                    \/ r.val[GENE_ID_COL] # q.val[GENE_ID_COL])
                => r.id # q.id

\* the columns the j-th kit of the call emits
KitColumns(j) == {KitColumn(call.databases[j])}

\* two kits of the call emit a column of the same name
SameColumnTwice ==
    \E j, k \in 1..Len(call.databases) :
        j # k /\ KitColumns(j) \cap KitColumns(k) # {}

C19_ThreadsCapped ==
    (Called("search") /\ max_threads(call.kit) > 0) =>
        /\ ret.threads = (IF call.cores < max_threads(call.kit)
                          THEN call.cores ELSE max_threads(call.kit))
        /\ \A n \in 1..Len(ret.calls) :
              ret.calls[n].threads <= max_threads(call.kit)

\* the n-th call of the log is the call ev on the j-th kit, ended without
\* an exception
Completed(n, ev, j) ==
    /\ ret.log[n].ev = ev
    /\ ret.log[n].kit = j
    /\ ret.log[n].exception = "none"

\* a file of the config of a kit of the call makes get_config_path raise
ConfigurationFails ==
    \E j \in 1..Len(call.databases) :
        load_dram_config(call.databases[j], call.config) # "none"

\* C20: in annotate no search of a kit on a batch is called before
\* load_dram_config and then set_args have ended without an exception for
\* every kit of the call; and when the configuration of a kit fails (a file
\* not configured, a relative path with no data folder, a missing file),
\* annotate ends in that exception (or in the one an earlier kit's set_args
\* raised) and has called no search
C20_ConfigureEveryKitBeforeAnySearch ==
    Called("annotate_lifecycle") =>
        /\ \A n \in 1..Len(ret.log) :
              ret.log[n].ev = "search" =>
                  \A j \in 1..Len(call.databases) :
                      \E a, b \in 1..(n - 1) :
                          /\ a < b
                          /\ Completed(a, "load_dram_config", j)
                          /\ Completed(b, "set_args", j)
        /\ ConfigurationFails =>
              /\ ret.exception \in {"ValueError", "FileNotFoundError", "OSError"}
              /\ ~ret.returned
              /\ \A n \in 1..Len(ret.log) : ret.log[n].ev # "search"
        /\ \A n \in 1..Len(ret.log) :
              (ret.log[n].ev = "load_dram_config"
                    /\ ret.log[n].exception # "none") =>
                  /\ n = Len(ret.log)
                  /\ ret.exception = ret.log[n].exception
                  /\ ret.exception \in {"ValueError", "FileNotFoundError"}

\* the first kit is configured, the file of the second is missing: annotate
\* ends in FileNotFoundError after the first kit got its arguments
C20_Witness ==
    /\ Called("annotate_lifecycle")
    /\ call.databases = <<"fegenie", "methyl">>
    /\ ~call.config["mmsdb"].exists
    /\ ret.exception = "FileNotFoundError"
    /\ Len(ret.log) = 3
    /\ Completed(2, "set_args", 1)


\* C22: the default get_ids returns the value of the column <kit>_id when
\* the row has the column and the value is not null, and an empty list
\* when the column is absent or its value is null
C22_GetIdsPresentAndNonNull ==
    Called("get_ids") =>
        LET main_id == call.kit \o "_id"
            row == call.annotations
        IN  IF main_id \in DOMAIN row /\ row[main_id] # NaN
            THEN ret.value = <<row[main_id]>>
            ELSE ret.value = <<>>


\* C23: the search of a kit is idempotent per kit and batch: after a first
\* search of MethylKit or PeptidaseKit on a batch has returned, a second
\* search of the same kit on the same batch returns as well, without an
\* exception, and with the same table
C23_SearchIdempotent ==
    (Called("search_twice") /\ ret.first.returned) =>
        /\ ret.second.exception = "none"
        /\ ret.second.returned
        /\ ret.second.table = ret.first.table


\* C25: in a run of annotate with a budget of C threads and N batches:
\* with N < C the batches are handled by one process and the searches of
\* the kits get the C threads; with N >= C the batches are handled by
\* parallel workers of one thread each and every search of a kit runs with
\* one thread; in both cases workers times threads per worker is at most C
C25_ThreadBudgetSplit ==
    Called("thread_budget") =>
        LET b == ret.budget
            C == call.cores
            N == call.n_fastas
        IN  /\ N < C =>
                /\ b.index_workers = 1 /\ b.index_threads = C
                /\ b.search_workers = 1 /\ b.search_threads = C
            /\ N >= C =>
                /\ b.index_workers = C /\ b.index_threads = 1
                /\ b.search_threads = 1
            /\ b.index_workers * b.index_threads <= C
            /\ b.search_workers * b.search_threads <= C

\* the chunks are not empty, hold n keys at most, and give the list back
\* when put one after the other
ChunksOf(chunks, l, n) ==
    /\ \A k \in 1..Len(chunks) : Len(chunks[k]) >= 1 /\ Len(chunks[k]) <= n
    /\ Flatten(chunks) = l
    /\ Len(chunks) * n >= Len(l)
    /\ (Len(chunks) - 1) * n < Len(l) \/ Len(chunks) = 0

\* the keys get_descriptions looks up
LookedUp ==
    IF call.is_list THEN call.ids
    ELSE SelectSeq(call.ids, LAMBDA x : x # "<NaN>")

\* C26: divide_chunks(l, n) yields chunks of at most n keys whose
\* concatenation in order is l, and get_descriptions issues one query per
\* chunk of divide_chunks(ids, 499): no query has more than 499 keys and
\* the queries together hold every key once, in order
C26_LookupsInBoundedChunks ==
    /\ Called("divide_chunks") => ChunksOf(ret.chunks, call.l, call.n)
    /\ Called("get_descriptions") => ChunksOf(ret.queries, LookedUp, 499)

\* 999 keys go out in three queries of 499, 499 and 1 keys
C26_Witness ==
    /\ Called("get_descriptions")
    /\ Len(call.ids) = 999
    /\ Len(ret.queries) = 3
    /\ Len(ret.queries[1]) = 499
    /\ Len(ret.queries[2]) = 499
    /\ Len(ret.queries[3]) = 1

\* the databases an error message names
NamedInMessage(message) ==
    message.run_with
        \cup UNION {message.annotate_with[i] :
                        i \in 1..Len(message.annotate_with)}

\* C29: for a list of one or more required sets, check_for_annotations
\* returns None exactly when one of the sets at least is contained in
\* used_dbs; otherwise it returns an error message, and every database the
\* message names is not in used_dbs
C29_CheckForAnnotations ==
    Called("check_for_annotations") =>
        /\ (ret.value = <<>>) <=>
              (\E i \in 1..Len(call.annotation_sets) :
                    call.annotation_sets[i] \subseteq call.used_dbs)
        /\ ret.value # <<>> =>
              NamedInMessage(ret.value[1]) \cap call.used_dbs = {}

\* two sets, each with a database the project lacks: the message names the
\* one both lack and the one the second lacks alone
C29_Witness ==
    /\ Called("check_for_annotations")
    /\ call.annotation_sets = <<{"fegenie", "heme"}, {"fegenie", "heme", "methyl"}>>
    /\ call.used_dbs = {"fegenie"}
    /\ ret.value # <<>>
    /\ NamedInMessage(ret.value[1]) = {"heme", "methyl"}

\* C30: a run record that has no usable annotation file, the
\* annotation_file entry missing or the recorded path not on disk, makes
\* dict_to_annotation_meta raise DramUsageError and nothing else (the record
\* has every other key get_dict writes)
C30_NoAnnotationFileIsUsageError ==
    (/\ Called("dict_to_annotation_meta")
     /\ RunRecordTags \ {"annotation_file"} \subseteq call.keys
     /\ ("annotation_file" \notin call.keys \/ ~call.exists)) =>
        ret.exception = "DramUsageError"

---------------------------------------------------------------------------
(* Further claims about merge_past_annotations, checked under MergeSpec *)

\* the number of rows of a table that carry the gene id g
Multiplicity(t, g) == Len(RowsOf(t, g))

\* the number of rows of past whose gene id is in new: past after the trim
TrimmedPastRows ==
    SumOver([k \in 1..Len(IdOrder) |->
                IF IdOrder[k] \in SharedGenes
                THEN Multiplicity(m_past, IdOrder[k]) ELSE 0], Len(IdOrder))

\* the number of rows of the outer join of new with past after the trim:
\* a gene id in both has a row for every pair of its rows
JoinedRows ==
    SumOver([k \in 1..Len(IdOrder) |->
                IF IdOrder[k] \in SharedGenes
                THEN Multiplicity(m_new, IdOrder[k])
                        * Multiplicity(m_past, IdOrder[k])
                ELSE Multiplicity(m_new, IdOrder[k])], Len(IdOrder))

\* the joined row count differs from max(|past after trim|, |new|)
Mismatch ==
    JoinedRows # (IF TrimmedPastRows > Len(m_new.rows)
                  THEN TrimmedPastRows ELSE Len(m_new.rows))

\* the merge is not refused for a column collision
MergeAdmitted == m_force \/ SharedOutsideAllowList = {}

\* C24: a row count after the join that differs from
\* max(|past after trim|, |new|) is not fatal: the critical message is
\* logged, the merge returns the table without an exception, and the rows
\* of past whose gene id is not in new are appended to the joined rows
C24_MismatchNotFatal ==
    (m_pc = "done" /\ MergeAdmitted /\ Mismatch) =>
        /\ m_out.critical
        /\ m_out.exception = "none"
        /\ m_out.returned
        /\ FrameLen(m_out.table)
              = JoinedRows + (Len(m_past.rows) - TrimmedPastRows)
        /\ \A g \in IndexSet(m_past) \ IndexSet(m_new) :
              /\ m_past.cols \subseteq m_out.table.cols
              /\ Project(m_out.table, g, m_past.cols)
                    = Project(m_past, g, m_past.cols)
              /\ \A i, j \in 1..Len(m_out.table.rows) :
                    (m_out.table.rows[i].id = g
                        /\ m_out.table.rows[j].id \in IndexSet(m_new))
                    => j < i

\* a gene id twice in new and twice in past gives four joined rows; a past
\* row of another gene id is appended
C24_Witness ==
    /\ m_pc = "done" /\ Mismatch
    /\ Multiplicity(m_new, "A_1") = 2 /\ Multiplicity(m_past, "A_1") = 2
    /\ "A_2" \in IndexSet(m_past) \ IndexSet(m_new)
    /\ m_out.returned /\ m_out.critical
    /\ Multiplicity(m_out.table, "A_1") = 4
    /\ Multiplicity(m_out.table, "A_2") = 1

\* C27: when merge_past_annotations completes on two tables in which every
\* gene id occurs once, the result has exactly one row per gene id of new
\* or past and no other row, its columns are the columns of new and of
\* past, the joined row count is |new|, and the critical message of the
\* row count is not logged
C27_UniqueIdsMergeExact ==
    (m_pc = "done" /\ m_out.returned /\ UniqueIds(m_new) /\ UniqueIds(m_past)) =>
        /\ \A g \in AllIds :
              Multiplicity(m_out.table, g)
                = (IF g \in IndexSet(m_new) \cup IndexSet(m_past) THEN 1 ELSE 0)
        /\ m_out.table.cols = m_new.cols \cup m_past.cols
        /\ JoinedRows = Len(m_new.rows)
        /\ ~Mismatch
        /\ ~m_out.critical

\* new holds A_1, past holds A_1 and A_2, with a shared column and a
\* column of past alone: two rows, three columns, nothing logged
C27_Witness ==
    /\ m_pc = "done" /\ m_out.returned /\ m_force
    /\ UniqueIds(m_new) /\ UniqueIds(m_past)
    /\ IndexSet(m_new) = {"A_1"} /\ IndexSet(m_past) = {"A_1", "A_2"}
    /\ m_new.cols = {FASTA_COL, "K_id"}
    /\ m_past.cols = {FASTA_COL, "K_id", "J_id"}
    /\ FrameLen(m_out.table) = 2
    /\ m_out.table.cols = {FASTA_COL, "K_id", "J_id"}
    /\ ~m_out.critical

===========================================================================
